---- MODULE Spec2Model ----
(***************************************************************************)
(* Model of the fetch wrapper installed by src/index.js: the retry loop of *)
(* window.fetch, handleRetry, getRetryDelay, isResponseInvalid,            *)
(* showRetryToast and showErrorNotification.                               *)
(*                                                                         *)
(* One action is one JavaScript task: the code of the wrapper that runs    *)
(* from one suspension point (await) to the next.  The state of a call to  *)
(* the wrapper is a record; the handlers are operators from records to     *)
(* records, composed the way the code calls them.                          *)
(*                                                                         *)
(* Delays are rational numbers of milliseconds (retryDelay * 1.2^attempt,  *)
(* rateLimitDelay * 1.5^attempt).  They are kept exactly, as integers in   *)
(* units of 1/Scale ms (Scale is a power of ten).                          *)
(***************************************************************************)
EXTENDS Integers, Sequences, FiniteSets, TLC

VARIABLES
    fetchRetrySettings,  \* the module-level policy object (src/index.js:10)
    streamTimeoutId,     \* module-level variable of the stream monitor (src/index.js:551)
    calls,               \* calls[c]: state of call c to the wrapped window.fetch
    script,              \* the answers the server will give, in order (<<>>: any answer)
    calc                 \* the last application of the Delay Calculator on its own

vars == <<fetchRetrySettings, streamTimeoutId, calls, script, calc>>

----------------------------------------------------------------------------
(* Bounds of the model *)

MaxRetriesBound == 2
NumCalls == 2

Calls == 1..NumCalls
\* Attempt indices reach MaxRetriesBound; the exponents of the backoff stay
\* within ExpBound, and Scale makes every power of 1.2 and 1.5 an integer.
ExpBound == MaxRetriesBound + 1
Scale == 10 ^ ExpBound

----------------------------------------------------------------------------
(* Program constants *)

RetryAfterCapMs == 30000
MsPerSecond == 1000

Max(a, b) == IF a >= b THEN a ELSE b
Min(a, b) == IF a <= b THEN a ELSE b

----------------------------------------------------------------------------
(* Values: errors and responses *)

\* The value of an unset JavaScript variable (let lastError; let lastResponse;).
Undefined == [kind |-> "undefined", name |-> "undefined", message |-> "undefined"]

\* new Error(msg) with error.name = 'TimeoutError' (thinking timer callback).
TimeoutError == [kind |-> "Error", name |-> "TimeoutError", message |-> "Thinking timeout reached"]
\* new DOMException('Request aborted by user', 'AbortError') thrown at the top of the loop.
LoopAbortError == [kind |-> "DOMException", name |-> "AbortError", message |-> "Request aborted by user"]
\* What the underlying fetch rejects with once controller.abort('User aborted')
\* has run: the abort reason itself, the string 'User aborted' (a string has
\* neither .name nor .message) ...
UserAbortedReason == [kind |-> "string", name |-> "undefined", message |-> "undefined"]
\* ... or, on a platform whose fetch ignores abort reasons, its own AbortError.
NativeAbortError == [kind |-> "DOMException", name |-> "AbortError", message |-> "The user aborted a request."]
\* A network failure of the underlying fetch.
NetworkError == [kind |-> "TypeError", name |-> "TypeError", message |-> "Failed to fetch"]
\* The errors the wrapper itself creates from a response.
RateLimitError == [kind |-> "Error", name |-> "Error", message |-> "Rate limited (429)"]
ServerError == [kind |-> "Error", name |-> "Error", message |-> "Server error"]
HttpError == [kind |-> "Error", name |-> "Error", message |-> "HTTP status"]
InvalidError == [kind |-> "Error", name |-> "Error", message |-> "Response invalid"]

AbortRejections == {UserAbortedReason, NativeAbortError}

\* A Retry-After header value is a string: a sequence of characters.
NoHeader == <<"absent">>
RetryAfterValues == {NoHeader, <<"1", "0">>, <<"4", "0">>, <<"-", "5">>, <<"a", "b", "c">>}

\* A response: its status, its Retry-After header, and whether its body
\* stops sending chunks (the wrapper reads the first two only).
Response(status, retryAfter) ==
    [status |-> status, retryAfter |-> retryAfter, stalled |-> FALSE]
StalledResponse(status) ==
    [status |-> status, retryAfter |-> NoHeader, stalled |-> TRUE]
NoResponse == [status |-> -1, retryAfter |-> NoHeader, stalled |-> FALSE]

\* The responses the server may give.  Headers are varied on the statuses
\* whose wait reads them.
Responses ==
    {Response(200, NoHeader), StalledResponse(200), Response(403, NoHeader)}
    \cup {Response(s, h) : s \in {429, 500}, h \in RetryAfterValues}
    \cup {Response(302, h) : h \in {NoHeader, <<"4", "0">>}}

\* An outcome of one underlying call: a response, or a rejection.
Resolved(r) == [settled |-> "response", response |-> r, error |-> Undefined]
Rejected(e) == [settled |-> "error", response |-> NoResponse, error |-> e]
NoOutcome == [settled |-> "none", response |-> NoResponse, error |-> Undefined]
ServerOutcomes == {Resolved(r) : r \in Responses} \cup {Rejected(NetworkError)}

\* response.ok
Ok(r) == r.status >= 200 /\ r.status <= 299

----------------------------------------------------------------------------
(* The policy *)

Policy(en, mr, rd, rl, tt, ett, sen, sit, mrd) ==
    [enabled |-> en, maxRetries |-> mr, retryDelay |-> rd, rateLimitDelay |-> rl,
     thinkingTimeout |-> tt, enableThinkingTimeout |-> ett,
     showErrorNotification |-> sen, streamInactivityTimeout |-> sit,
     minRetryDelay |-> mrd]

\* <<retryDelay, rateLimitDelay, minRetryDelay>>: the scenario of the spec's
\* section 8, the defaults of src/index.js:13-19, a dominating floor, and a
\* generic schedule above the Retry-After cap.
DelayProfiles == {<<1000, 1000, 0>>, <<5000, 5000, 0>>, <<100, 1000, 5000>>, <<40000, 1000, 10>>}
\* <<enableThinkingTimeout, thinkingTimeout>>
ThinkingProfiles == {<<FALSE, 60000>>, <<TRUE, 60000>>, <<TRUE, 0>>}

Policies ==
    {Policy(en, mr, d[1], d[2], th[2], th[1], sen, sit, d[3]) :
        en \in BOOLEAN, mr \in 0..MaxRetriesBound, d \in DelayProfiles,
        th \in ThinkingProfiles, sen \in BOOLEAN, sit \in {0, 30000}}

----------------------------------------------------------------------------
(* Delay Calculator *)

NaN == [nan |-> TRUE, value |-> 0]
Number(v) == [nan |-> FALSE, value |-> v]

DigitValue(ch) ==
    CASE ch = "0" -> 0 [] ch = "1" -> 1 [] ch = "2" -> 2 [] ch = "3" -> 3
      [] ch = "4" -> 4 [] ch = "5" -> 5 [] ch = "6" -> 6 [] ch = "7" -> 7
      [] ch = "8" -> 8 [] ch = "9" -> 9 [] OTHER -> -1

\* The longest prefix of decimal digits of s, read as a number; NaN if empty.
RECURSIVE DigitsPrefix(_, _, _)
DigitsPrefix(s, acc, seen) ==
    IF s # <<>> /\ DigitValue(Head(s)) >= 0
    THEN DigitsPrefix(Tail(s), 10 * acc + DigitValue(Head(s)), TRUE)
    ELSE IF seen THEN Number(acc) ELSE NaN

\* Mutant: parseInt drops the sign.
ParseInt_IgnoresSign(s) ==
    DigitsPrefix(IF s # <<>> /\ Head(s) \in {"-", "+"} THEN Tail(s) ELSE s, 0, FALSE)

\* parseInt(string): an optional sign, then the leading digits.
ParseInt(s) ==
    LET signed == s # <<>> /\ Head(s) \in {"-", "+"}
        digits == DigitsPrefix(IF signed THEN Tail(s) ELSE s, 0, FALSE)
    IN  IF digits.nan THEN NaN
        ELSE IF signed /\ Head(s) = "-" THEN Number(-digits.value) ELSE digits

\* Math.pow(1.2, attempt) and Math.pow(1.5, attempt), times Scale.
Pow12(attempt) == (12 ^ attempt) * (10 ^ (ExpBound - attempt))

\* Mutant: the exponent is the number of retries left, not the attempt index.
Pow15_Remaining(attempt) ==
    LET left == Max(0, fetchRetrySettings.maxRetries - attempt)
    IN  (15 ^ left) * (10 ^ (ExpBound - left))

Pow15(attempt) == (15 ^ attempt) * (10 ^ (ExpBound - attempt))

\* Mutant: the delay starts from 0 instead of minRetryDelay.
getRetryDelay_NoFloor(error, response, attempt) ==
    LET seconds == ParseInt(response.retryAfter)
        afterHeader ==
            IF response # NoResponse /\ response.retryAfter # NoHeader /\ ~seconds.nan
            THEN Max(0, Min(seconds.value * MsPerSecond, RetryAfterCapMs) * Scale)
            ELSE 0
        after429 ==
            IF response # NoResponse /\ response.status = 429
            THEN Max(afterHeader, fetchRetrySettings.rateLimitDelay * Pow15(attempt))
            ELSE afterHeader
    IN  Max(after429, fetchRetrySettings.retryDelay * Pow12(attempt))

\* Mutant: the Retry-After header is read only inside the 429 branch.
getRetryDelay_HeaderOn429Only(error, response, attempt) ==
    LET floor == fetchRetrySettings.minRetryDelay * Scale
        seconds == ParseInt(response.retryAfter)
        afterHeader ==
            IF response # NoResponse /\ response.status = 429
               /\ response.retryAfter # NoHeader /\ ~seconds.nan
            THEN Max(floor, Min(seconds.value * MsPerSecond, RetryAfterCapMs) * Scale)
            ELSE floor
        after429 ==
            IF response # NoResponse /\ response.status = 429
            THEN Max(afterHeader, fetchRetrySettings.rateLimitDelay * Pow15(attempt))
            ELSE afterHeader
    IN  Max(after429, fetchRetrySettings.retryDelay * Pow12(attempt))

\* getRetryDelay(error, response, attempt), in units of 1/Scale ms.
getRetryDelay(error, response, attempt) ==
    LET floor == fetchRetrySettings.minRetryDelay * Scale
        seconds == ParseInt(response.retryAfter)
        afterHeader ==
            IF response # NoResponse /\ response.retryAfter # NoHeader /\ ~seconds.nan
            THEN Max(floor, Min(seconds.value * MsPerSecond, RetryAfterCapMs) * Scale)
            ELSE floor
        after429 ==
            IF response # NoResponse /\ response.status = 429
            THEN Max(afterHeader, fetchRetrySettings.rateLimitDelay * Pow15(attempt))
            ELSE afterHeader
    IN  Max(after429, fetchRetrySettings.retryDelay * Pow12(attempt))

\* A delay of ms milliseconds in the units of getRetryDelay.
Ms(ms) == ms * Scale

----------------------------------------------------------------------------
(* Stream Activity Monitor *)

GenerationUrl == "/chat/completions"
OtherUrl == "/api/settings"
Urls == {GenerationUrl, OtherUrl}

\* generationEndpoints.some(endpoint => url.includes(endpoint))
isGenerationUrl(url) == url = GenerationUrl

\* Mutant: the stream-inactivity check ignores the URL of the request.
isResponseInvalid_AnyUrl(response, url) ==
    IF fetchRetrySettings.streamInactivityTimeout = 0
    THEN [invalid |-> FALSE, reason |-> ""]
    ELSE [invalid |-> TRUE, reason |-> "stream_inactivity"]

\* isResponseInvalid(response, url).  The try block reads streamTimeoutId and
\* throws nothing, so the catch that would answer 'stream_inactivity' never runs.
isResponseInvalid(response, url) ==
    IF fetchRetrySettings.streamInactivityTimeout = 0
    THEN [invalid |-> FALSE, reason |-> ""]
    ELSE IF ~isGenerationUrl(url)
    THEN [invalid |-> FALSE, reason |-> ""]
    ELSE IF streamTimeoutId # "null"
    THEN [invalid |-> FALSE, reason |-> ""]
    ELSE [invalid |-> FALSE, reason |-> ""]

----------------------------------------------------------------------------
(* The state of one call to the wrapped window.fetch *)

IdleCall ==
    [pc |-> "idle",            \* idle, bypass, inflight, waiting, returned, raised
     url |-> OtherUrl,         \* requestUrl
     hasSignal |-> FALSE,      \* originalSignal is defined
     aborted |-> FALSE,        \* originalSignal.aborted
     entryAborted |-> FALSE,   \* originalSignal.aborted when the wrapper was called
     attempt |-> 0,
     lastError |-> Undefined,
     lastResponse |-> NoResponse,
     controllers |-> 0,        \* AbortControllers created; the current one is the last
     ctrlAborted |-> FALSE,    \* controller.signal.aborted of the current controller
     ctrlReason |-> "none",    \* who aborted it: "User aborted" or "timeout"
     listeners |-> {},         \* controllers whose userAbortHandler is registered
     timeoutId |-> 0,          \* controller the pending thinking timer will abort; 0: none
     fetchCalls |-> 0,         \* calls of originalFetch
     fetchSignal |-> "none",   \* signal given to the last one: original or controller
     inFlight |-> 0,           \* underlying calls neither settled nor cancelled
     got |-> NoOutcome,        \* how the last attempt ended, as the wrapper saw it
     retryToasts |-> 0,        \* calls of showRetryToast
     errorNotifications |-> 0, \* calls of showErrorNotification
     errorToast |-> "none",    \* classification shown by showErrorNotification
     notified |-> [error |-> Undefined, response |-> NoResponse],
                               \* arguments of the last showErrorNotification
     waits |-> 0,              \* inter-attempt waits started
     delay |-> 0,              \* the delay of the last wait
     exit |-> "none",          \* return, terminal, abortLoop, abortCatch, bypass
     result |-> NoOutcome,     \* what the caller got: a response or a raised value
     abortedAt |-> -1,         \* attempt during which the caller's signal fired
     entryMaxRetries |-> 0]    \* fetchRetrySettings.maxRetries when the call began

Done(st) == st.pc \in {"returned", "raised"}

----------------------------------------------------------------------------
(* Notifier *)

\* showRetryToast(attempt, maxRetries, error)
showRetryToast(st, attempt, maxRetries, error) ==
    [st EXCEPT !.retryToasts = @ + 1]

\* showErrorNotification(error, response)
showErrorNotification(st, error, response) ==
    LET message ==
            IF response # NoResponse
            THEN IF response.status = 429 THEN "rate limit"
                 ELSE IF response.status >= 500 THEN "server error"
                 ELSE IF response.status = 403 THEN "forbidden"
                 ELSE "http"
            ELSE IF error # Undefined
            THEN IF error.name = "TimeoutError" THEN "timeout"
                 ELSE IF error.name = "AbortError" THEN "aborted"
                 ELSE "network"
            ELSE "failed"
        called == [st EXCEPT !.errorNotifications = @ + 1,
                             !.notified = [error |-> error, response |-> response]]
    IN  IF ~fetchRetrySettings.showErrorNotification
        THEN called
        ELSE [called EXCEPT !.errorToast = message]

----------------------------------------------------------------------------
(* Retry Orchestrator and Attempt Executor *)

\* Mutant: the toast is shown before every wait.
handleRetry_AlwaysToasts(st, error, response, attempt) ==
    [showRetryToast(st, attempt, fetchRetrySettings.maxRetries, error)
        EXCEPT !.pc = "waiting",
               !.delay = getRetryDelay(error, response, attempt),
               !.waits = @ + 1]

\* handleRetry(error, response, attempt) up to its await: the toast, the delay
\* and the start of the wait.  WaitElapses resumes it (return attempt + 1).
handleRetry(st, error, response, attempt) ==
    LET toasted ==
            IF attempt > 0
            THEN showRetryToast(st, attempt, fetchRetrySettings.maxRetries, error)
            ELSE st
    IN  [toasted EXCEPT !.pc = "waiting",
                        !.delay = getRetryDelay(error, response, attempt),
                        !.waits = @ + 1]

Return(st, response) ==
    [st EXCEPT !.pc = "returned", !.exit = "return", !.result = Resolved(response)]

Raise(st, error, exit) ==
    [st EXCEPT !.pc = "raised", !.exit = exit, !.result = Rejected(error)]

\* After the loop: showErrorNotification(lastError, lastResponse); throw lastError.
TerminalFailure(st) ==
    Raise(showErrorNotification(st, st.lastError, st.lastResponse), st.lastError, "terminal")

\* Mutant: the loop compares with the maxRetries read when the call started.
LoopCondition_Snapshot(st) == st.attempt <= st.entryMaxRetries

\* while (attempt <= fetchRetrySettings.maxRetries)
LoopCondition(st) == st.attempt <= fetchRetrySettings.maxRetries

\* originalSignal?.aborted
SignalAborted(st) == st.hasSignal /\ st.aborted

\* Mutant: the iteration starts without looking at the caller's signal.
CallerCancelled_Unchecked(st) == FALSE

\* The abort check at the top of an iteration.
CallerCancelled(st) == SignalAborted(st)

\* Mutant: one controller is created for the call and used by every attempt.
LoopIteration_SharedController(st) ==
    IF ~LoopCondition(st)
    THEN TerminalFailure(st)
    ELSE IF CallerCancelled(st)
    THEN Raise(st, LoopAbortError, "abortLoop")
    ELSE [st EXCEPT !.pc = "inflight",
                    !.controllers = 1,
                    !.listeners = IF st.hasSignal THEN @ \cup {1} ELSE @,
                    !.fetchCalls = @ + 1,
                    !.fetchSignal = "controller",
                    !.inFlight = @ + 1,
                    !.timeoutId = IF fetchRetrySettings.enableThinkingTimeout
                                  THEN 1 ELSE 0]

\* One iteration of the while loop up to its first await: the abort check, the
\* attempt's controller and listener, the underlying call and the timer.
LoopIteration(st) ==
    IF ~LoopCondition(st)
    THEN TerminalFailure(st)
    ELSE IF CallerCancelled(st)
    THEN Raise(st, LoopAbortError, "abortLoop")
    ELSE LET id == st.controllers + 1
         IN  [st EXCEPT !.pc = "inflight",
                        !.controllers = id,
                        !.ctrlAborted = FALSE,
                        !.ctrlReason = "none",
                        !.listeners = IF st.hasSignal THEN @ \cup {id} ELSE @,
                        !.fetchCalls = @ + 1,
                        !.fetchSignal = "controller",
                        !.inFlight = @ + 1,
                        !.timeoutId = IF fetchRetrySettings.enableThinkingTimeout
                                      THEN id ELSE 0]

\* Mutant: the budget check lets one attempt too many through.
BudgetExhausted_OffByOne(st) == st.attempt > fetchRetrySettings.maxRetries

\* The budget check of the catch block.
BudgetExhausted(st) == st.attempt >= fetchRetrySettings.maxRetries

\* Mutant: every attempt whose controller was aborted counts as a caller abort.
IsUserAbort_AnyAbortedController(st, err) == st.ctrlAborted

\* if (err.name === 'AbortError') { if (originalSignal?.aborted || ...) throw err; }
IsUserAbort(st, err) ==
    /\ err.name # "TimeoutError"
    /\ err.name = "AbortError"
    /\ \/ SignalAborted(st)
       \/ err.message \in {"User aborted", "Request aborted by user"}

\* Mutant: the catch block starts the next attempt without waiting.
CatchBlock_RetriesAtOnce(st, err) ==
    LET s1 == [st EXCEPT !.timeoutId = 0,
                         !.listeners = @ \ {st.controllers},
                         !.lastError = err]
    IN  IF IsUserAbort(s1, err)
        THEN Raise(s1, err, "abortCatch")
        ELSE IF BudgetExhausted(s1)
        THEN TerminalFailure(s1)
        ELSE LoopIteration([s1 EXCEPT !.attempt = @ + 1])

\* catch (err) { ... }
CatchBlock(st, err) ==
    LET s1 == [st EXCEPT !.timeoutId = 0,
                         !.listeners = @ \ {st.controllers},
                         !.lastError = err]
    IN  IF IsUserAbort(s1, err)
        THEN Raise(s1, err, "abortCatch")
        ELSE IF BudgetExhausted(s1)
        THEN TerminalFailure(s1)
        ELSE handleRetry(s1, err, s1.lastResponse, s1.attempt)

\* Mutant: the status branches retry whatever the attempt index.
CanRetry_NoBudget(st) == TRUE

\* attempt < fetchRetrySettings.maxRetries, in the branches of the try block.
CanRetry(st) == st.attempt < fetchRetrySettings.maxRetries

\* Mutant: a stalled stream is invalid, and at the budget it fails the call.
SuccessBranch_InvalidFails(st, result) ==
    IF /\ result.stalled
       /\ fetchRetrySettings.streamInactivityTimeout # 0
       /\ isGenerationUrl(st.url)
    THEN IF CanRetry(st)
         THEN handleRetry(st, InvalidError, result, st.attempt)
         ELSE TerminalFailure([st EXCEPT !.lastError = InvalidError])
    ELSE Return(st, result)

\* if (result.ok) { ... }
SuccessBranch(st, result) ==
    IF isResponseInvalid(result, st.url).invalid /\ CanRetry(st)
    THEN handleRetry(st, InvalidError, result, st.attempt)
    ELSE Return(st, result)

\* if (result.status === 429) { ... }: retry, or record and break.
RateLimitBranch(st, result) ==
    IF CanRetry(st)
    THEN handleRetry(st, RateLimitError, result, st.attempt)
    ELSE TerminalFailure([st EXCEPT !.lastError = RateLimitError,
                                    !.lastResponse = result])

\* else if (result.status >= 500) { ... }: retry, or record and break.
ServerErrorBranch(st, result) ==
    IF CanRetry(st)
    THEN handleRetry(st, ServerError, result, st.attempt)
    ELSE TerminalFailure([st EXCEPT !.lastError = ServerError,
                                    !.lastResponse = result])

\* Mutant: a client error is thrown like any other failing status.
ClientErrorBranch_Throws(st, result) == CatchBlock(st, HttpError)

\* else if (result.status >= 400) { return result; }
ClientErrorBranch(st, result) == Return(st, result)

\* Mutant: a response with an unexpected status is returned to the caller.
UnexpectedStatus_Returned(st, result) == Return(st, result)

\* throw new Error(`HTTP ${result.status}: ...`), caught by the catch block.
UnexpectedStatus(st, result) == CatchBlock(st, HttpError)

\* Mutant: the cleanup after the race leaves the abort listener registered.
TryBlock_LeavesListener(st, result) ==
    LET s1 == [st EXCEPT !.timeoutId = 0, !.lastResponse = result]
    IN  IF Ok(result) THEN SuccessBranch(s1, result)
        ELSE IF result.status = 429 THEN RateLimitBranch(s1, result)
        ELSE IF result.status >= 500 THEN ServerErrorBranch(s1, result)
        ELSE IF result.status >= 400 THEN ClientErrorBranch(s1, result)
        ELSE UnexpectedStatus(s1, result)

\* The try block from the end of the race on, for a resolved underlying call.
TryBlock(st, result) ==
    LET s1 == [st EXCEPT !.timeoutId = 0,
                         !.listeners = @ \ {st.controllers},
                         !.lastResponse = result]
    IN  IF Ok(result) THEN SuccessBranch(s1, result)
        ELSE IF result.status = 429 THEN RateLimitBranch(s1, result)
        ELSE IF result.status >= 500 THEN ServerErrorBranch(s1, result)
        ELSE IF result.status >= 400 THEN ClientErrorBranch(s1, result)
        ELSE UnexpectedStatus(s1, result)

\* Mutant: the bypass still runs the call through the attempt executor.
Bypass_Wrapped(st) == LoopIteration(st)

\* return originalFetch.apply(this, args): the caller's arguments, untouched.
Bypass(st) ==
    [st EXCEPT !.pc = "bypass",
               !.fetchCalls = @ + 1,
               !.fetchSignal = IF st.hasSignal THEN "original" ELSE "none",
               !.inFlight = @ + 1]

\* if (!fetchRetrySettings.enabled)
Disabled == ~fetchRetrySettings.enabled

\* Mutant: the state of the signal at entry is not looked at.
AlreadyAborted_Ignored(st) == FALSE

\* if (originalSignal?.aborted), before the loop.
AlreadyAborted(st) == SignalAborted(st)

\* window.fetch = async function(...args), up to its first await.
WrappedFetch(st) ==
    IF Disabled
    THEN Bypass(st)
    ELSE IF AlreadyAborted(st)
    THEN Bypass(st)
    ELSE LoopIteration([st EXCEPT !.attempt = 0])

----------------------------------------------------------------------------
(* Actions *)

\* The host calls window.fetch(url, {signal}).
Invoke(c, hasSignal, aborted, url) ==
    /\ calls[c].pc = "idle"
    /\ aborted => hasSignal
    /\ calls' = [calls EXCEPT ![c] =
            WrappedFetch([@ EXCEPT !.url = url, !.hasSignal = hasSignal,
                                   !.aborted = aborted,
                                   !.entryAborted = aborted,
                                   !.entryMaxRetries =
                                        fetchRetrySettings.maxRetries])]
    /\ UNCHANGED <<fetchRetrySettings, streamTimeoutId, script, calc>>

\* The next answer of the server: the head of the script, or any answer.
Answers(o) == IF script = <<>> THEN TRUE ELSE o = Head(script)
Answered == IF script = <<>> THEN script ELSE Tail(script)

\* The underlying call of the attempt settles before the timer fires.
FetchSettles(c, o) ==
    /\ calls[c].pc = "inflight"
    /\ Answers(o)
    /\ LET st == [calls[c] EXCEPT !.inFlight = @ - 1, !.got = o]
       IN  calls' = [calls EXCEPT ![c] =
                IF o.settled = "response"
                THEN TryBlock(st, o.response)
                ELSE CatchBlock(st, o.error)]
    /\ script' = Answered
    /\ UNCHANGED <<fetchRetrySettings, streamTimeoutId, calc>>

\* The thinking timer fires first: controller.abort(); reject(TimeoutError).
ThinkingTimeout(c) ==
    /\ calls[c].pc = "inflight"
    /\ calls[c].timeoutId # 0
    /\ LET st == [calls[c] EXCEPT !.ctrlAborted = TRUE,
                                  !.ctrlReason = "timeout",
                                  !.timeoutId = 0,
                                  !.inFlight = @ - 1,
                                  !.got = Rejected(TimeoutError)]
       IN  calls' = [calls EXCEPT ![c] = CatchBlock(st, TimeoutError)]
    /\ UNCHANGED <<fetchRetrySettings, streamTimeoutId, script, calc>>

\* Mutant: the caller's signal stays tied to the last controller of the call.
UserAbortHandlers_NeverRemoved(st) ==
    IF st.controllers = 0
    THEN st
    ELSE [st EXCEPT !.ctrlAborted = TRUE,
                    !.ctrlReason = IF st.ctrlAborted THEN @ ELSE "User aborted",
                    !.listeners = {}]

\* userAbortHandler: controller.abort('User aborted'), for each registered
\* listener ({once: true} removes it).
UserAbortHandlers(st) ==
    IF st.listeners = {}
    THEN st
    ELSE [st EXCEPT !.ctrlAborted = TRUE,
                    !.ctrlReason = IF st.ctrlAborted THEN @ ELSE "User aborted",
                    !.listeners = {}]

\* Mutant: the controller is shared, so the abort of one caller reaches the
\* attempts of every call.
CallerAborts_AllCalls(c, err) ==
    /\ calls[c].pc # "idle"
    /\ calls[c].hasSignal
    /\ ~calls[c].aborted
    /\ calls' = [d \in Calls |->
            IF calls[d].pc = "idle" \/ ~calls[d].hasSignal \/ calls[d].aborted
            THEN calls[d]
            ELSE LET st == UserAbortHandlers([calls[d] EXCEPT !.aborted = TRUE])
                 IN  IF st.pc = "inflight"
                     THEN CatchBlock([st EXCEPT !.inFlight = @ - 1,
                                                !.got = Rejected(err),
                                                !.abortedAt = st.attempt], err)
                     ELSE st]
    /\ UNCHANGED <<fetchRetrySettings, streamTimeoutId, script, calc>>

\* The caller's signal fires.  During an attempt the listener cancels the
\* underlying call, which rejects with err, and the catch block runs.
CallerAborts(c, err) ==
    /\ calls[c].pc # "idle"
    /\ calls[c].hasSignal
    /\ ~calls[c].aborted
    /\ LET st == UserAbortHandlers([calls[c] EXCEPT !.aborted = TRUE])
       IN  calls' = [calls EXCEPT ![c] =
                IF st.pc = "inflight"
                THEN CatchBlock([st EXCEPT !.inFlight = @ - 1,
                                           !.got = Rejected(err),
                                           !.abortedAt = st.attempt], err)
                ELSE st]
    /\ UNCHANGED <<fetchRetrySettings, streamTimeoutId, script, calc>>

\* The inter-attempt timer of handleRetry fires: attempt = attempt + 1, and
\* the loop goes round.
WaitElapses(c) ==
    /\ calls[c].pc = "waiting"
    /\ calls' = [calls EXCEPT ![c] = LoopIteration([@ EXCEPT !.attempt = @ + 1])]
    /\ UNCHANGED <<fetchRetrySettings, streamTimeoutId, script, calc>>

\* The underlying call of a bypassed call settles; the native fetch rejects a
\* call whose signal is aborted.
BypassSettles(c, o) ==
    /\ calls[c].pc = "bypass"
    /\ IF calls[c].aborted THEN o = Rejected(NativeAbortError) ELSE Answers(o)
    /\ calls' = [calls EXCEPT ![c] =
            [@ EXCEPT !.pc = IF o.settled = "response" THEN "returned" ELSE "raised",
                      !.exit = "bypass",
                      !.inFlight = @ - 1,
                      !.got = o,
                      !.result = o]]
    /\ script' = IF calls[c].aborted THEN script ELSE Answered
    /\ UNCHANGED <<fetchRetrySettings, streamTimeoutId, calc>>

----------------------------------------------------------------------------
(* Specification: one call under a fixed policy, any server *)

NoCalc == [applied |-> FALSE, response |-> NoResponse, attempt |-> 0, delay |-> 0]

MainCalls == {1}

Init ==
    /\ fetchRetrySettings \in Policies
    /\ streamTimeoutId = "null"
    /\ calls = [c \in Calls |-> IdleCall]
    /\ script = <<>>
    /\ calc = NoCalc

Next ==
    \/ \E c \in MainCalls, hasSignal \in BOOLEAN, aborted \in BOOLEAN, url \in Urls :
            Invoke(c, hasSignal, aborted, url)
    \/ \E c \in MainCalls, o \in ServerOutcomes : FetchSettles(c, o)
    \/ \E c \in MainCalls : ThinkingTimeout(c)
    \/ \E c \in MainCalls, err \in AbortRejections : CallerAborts(c, err)
    \/ \E c \in MainCalls : WaitElapses(c)
    \/ \E c \in MainCalls, o \in ServerOutcomes \cup {Rejected(NativeAbortError)} :
            BypassSettles(c, o)

Spec == Init /\ [][Next]_vars

\* The input handler of a settings slider: fetchRetrySettings[varId] = value.
SettingsChange(varId, value) ==
    /\ fetchRetrySettings[varId] # value
    /\ fetchRetrySettings' = [fetchRetrySettings EXCEPT ![varId] = value]
    /\ UNCHANGED <<streamTimeoutId, calls, script, calc>>

\* Every underlying call settles, and every timer set fires: the thinking
\* timer of an attempt and the wait of handleRetry.  Nothing obliges the
\* page to call fetch or the caller to abort.
Fairness ==
    /\ WF_vars(\E c \in MainCalls, o \in ServerOutcomes : FetchSettles(c, o))
    /\ WF_vars(\E c \in MainCalls : ThinkingTimeout(c))
    /\ WF_vars(\E c \in MainCalls : WaitElapses(c))
    /\ WF_vars(\E c \in MainCalls,
                  o \in ServerOutcomes \cup {Rejected(NativeAbortError)} :
                    BypassSettles(c, o))

\* The delays play no part in termination: one delay profile.
InitFair ==
    /\ Init
    /\ fetchRetrySettings.retryDelay = 1000
    /\ fetchRetrySettings.rateLimitDelay = 1000

SpecFair == InitFair /\ [][Next]_vars /\ Fairness

----------------------------------------------------------------------------
(* Specification: one call while the settings panel changes the policy *)

LivePolicy == Policy(TRUE, 1, 1000, 1000, 60000, TRUE, FALSE, 0, 0)

\* The sliders the retry decision and the delay read, and positions of each.
SliderIds == {"maxRetries", "retryDelay", "rateLimitDelay", "minRetryDelay"}
SliderValues(varId) ==
    IF varId = "maxRetries" THEN 0..MaxRetriesBound
    ELSE IF varId = "minRetryDelay" THEN {0, 5000}
    ELSE {1000, 5000}

LiveOutcomes ==
    {Resolved(Response(200, NoHeader)), Resolved(Response(429, NoHeader)),
     Resolved(Response(500, NoHeader)), Rejected(NetworkError)}

InitLive ==
    /\ fetchRetrySettings = LivePolicy
    /\ streamTimeoutId = "null"
    /\ calls = [c \in Calls |-> IdleCall]
    /\ script = <<>>
    /\ calc = NoCalc

NextLive ==
    \/ \E c \in MainCalls : Invoke(c, FALSE, FALSE, GenerationUrl)
    \/ \E c \in MainCalls, o \in LiveOutcomes : FetchSettles(c, o)
    \/ \E c \in MainCalls : ThinkingTimeout(c)
    \/ \E c \in MainCalls : WaitElapses(c)
    \/ \E varId \in SliderIds : \E value \in SliderValues(varId) :
            SettingsChange(varId, value)

SpecLive == InitLive /\ [][NextLive]_vars

----------------------------------------------------------------------------
(* Specification: concurrent calls under one policy *)

\* One retry, thinking timeout armed, notifications off.
ConcurrentPolicy == Policy(TRUE, 1, 1000, 1000, 60000, TRUE, FALSE, 0, 0)

ConcurrentOutcomes ==
    {Resolved(Response(200, NoHeader)), Resolved(Response(500, NoHeader)),
     Rejected(NetworkError)}

InitTwo ==
    /\ fetchRetrySettings = ConcurrentPolicy
    /\ streamTimeoutId = "null"
    /\ calls = [c \in Calls |-> IdleCall]
    /\ script = <<>>
    /\ calc = NoCalc

\* Every call of Calls is live; each step is one task of one call.
NextTwo ==
    \/ \E c \in Calls : Invoke(c, TRUE, FALSE, GenerationUrl)
    \/ \E c \in Calls, o \in ConcurrentOutcomes : FetchSettles(c, o)
    \/ \E c \in Calls : ThinkingTimeout(c)
    \/ \E c \in Calls, err \in AbortRejections : CallerAborts(c, err)
    \/ \E c \in Calls : WaitElapses(c)

SpecTwo == InitTwo /\ [][NextTwo]_vars

----------------------------------------------------------------------------
(* Specification: the scenario of the spec's section 8.  The policy is
   {maxRetries: 2, retryDelay: 1000, rateLimitDelay: 1000, minRetryDelay: 0}
   and the server answers 429 three times, then 200. *)

ScenarioScript ==
    <<Resolved(Response(429, NoHeader)), Resolved(Response(429, NoHeader)),
      Resolved(Response(429, NoHeader)), Resolved(Response(200, NoHeader))>>

ScenarioPolicies ==
    {p \in Policies : /\ p.maxRetries = 2
                      /\ p.retryDelay = 1000
                      /\ p.rateLimitDelay = 1000
                      /\ p.minRetryDelay = 0}

InitScenario ==
    /\ fetchRetrySettings \in ScenarioPolicies
    /\ streamTimeoutId = "null"
    /\ calls = [c \in Calls |-> IdleCall]
    /\ script = ScenarioScript
    /\ calc = NoCalc

SpecScenario == InitScenario /\ [][Next]_vars

----------------------------------------------------------------------------
(* Specification: the Delay Calculator on its own, applied to any response
   and attempt index under any policy of non-negative delays. *)

DelayPolicies ==
    {Policy(TRUE, mr, rd, rl, 60000, TRUE, TRUE, 30000, mrd) :
        mr \in 0..MaxRetriesBound, rd \in {0, 100, 1000, 5000, 40000},
        rl \in {0, 1000, 5000}, mrd \in {0, 10, 5000}}

\* const delay = getRetryDelay(error, response, attempt)
ComputeDelay(response, attempt) ==
    /\ calc' = [applied |-> TRUE, response |-> response, attempt |-> attempt,
                delay |-> getRetryDelay(Undefined, response, attempt)]
    /\ UNCHANGED <<fetchRetrySettings, streamTimeoutId, calls, script>>

InitDelay ==
    /\ fetchRetrySettings \in DelayPolicies
    /\ streamTimeoutId = "null"
    /\ calls = [c \in Calls |-> IdleCall]
    /\ script = <<>>
    /\ calc = NoCalc

\* Responses whose Retry-After value has a sign or trailing text.
DelayResponses ==
    Responses \cup {NoResponse}
    \cup {Response(s, h) : s \in {429, 503}, h \in {<<"7", "s">>, <<"+", "3">>}}

NextDelay ==
    \E response \in DelayResponses, attempt \in 0..MaxRetriesBound :
        ComputeDelay(response, attempt)

SpecDelay == InitDelay /\ [][NextDelay]_vars

----------------------------------------------------------------------------
(* Properties *)

\* The call went through the retry loop (it was not bypassed).
InLoop(st) ==
    \/ st.pc \in {"inflight", "waiting"}
    \/ st.exit \in {"return", "terminal", "abortLoop", "abortCatch"}

\* An attempt that ended in a failure the loop retries.
RetryableFailure(o) ==
    \/ o.settled = "error" /\ o.error \in {NetworkError, TimeoutError}
    \/ /\ o.settled = "response"
       /\ \/ o.response.status = 429
          \/ o.response.status >= 500
          \/ o.response.status < 200
          \/ o.response.status \in 300..399

\* A response with a status in 400..499 other than 429.
ClientError(o) ==
    /\ o.settled = "response"
    /\ o.response.status \in 400..499
    /\ o.response.status # 429

\* C1: with maxRetries = N and a caller that never aborts, the attempt index
\* of a call stays within 0..N and counts the underlying calls issued; a wait
\* is started only while attempt < N; and a call that has ended on a
\* retryable failure has issued exactly N+1 underlying calls and ended in
\* terminal failure.
C1_ExactlyNPlusOneAttempts ==
    \A c \in Calls :
        LET st == calls[c]
            N == fetchRetrySettings.maxRetries
        IN  (InLoop(st) /\ ~st.aborted) =>
                /\ st.attempt \in 0..N
                /\ st.fetchCalls = st.attempt + 1
                /\ st.pc = "waiting" => (RetryableFailure(st.got) /\ st.attempt < N)
                /\ (Done(st) /\ RetryableFailure(st.got)) =>
                        /\ st.pc = "raised"
                        /\ st.exit = "terminal"
                        /\ st.fetchCalls = N + 1
                        /\ st.waits = N

\* Witness of C1: a call with the largest budget has failed all its attempts.
C1_Witness ==
    \E c \in Calls :
        /\ calls[c].exit = "terminal"
        /\ ~calls[c].aborted
        /\ fetchRetrySettings.maxRetries = MaxRetriesBound
        /\ calls[c].fetchCalls = MaxRetriesBound + 1

\* C2: the step in which an attempt receives a 4xx response other than 429
\* returns that response to the caller without starting a wait or issuing a
\* notification, and nothing more is issued for that call afterwards.
C2_ClientErrorReturned ==
    [][\A c \in Calls :
        LET a == calls[c]
            b == calls'[c]
            quiet == /\ b.fetchCalls = a.fetchCalls
                     /\ b.waits = a.waits
                     /\ b.retryToasts = a.retryToasts
                     /\ b.errorNotifications = a.errorNotifications
        IN  /\ (a.pc = "inflight" /\ ClientError(b.got)) =>
                    /\ b.pc = "returned"
                    /\ b.result = b.got
                    /\ b.attempt = a.attempt
                    /\ quiet
            /\ (InLoop(a) /\ Done(a) /\ ClientError(a.got)) =>
                    /\ b.pc = "returned"
                    /\ b.result = a.result
                    /\ quiet]_vars

\* Witness of C2: a 403 received on a retry has been returned.
C2_Witness ==
    \E c \in Calls :
        /\ calls[c].pc = "returned"
        /\ calls[c].attempt > 0
        /\ calls[c].result = Resolved(Response(403, NoHeader))

\* C3: once the caller's signal has fired during attempt k, the attempt's own
\* controller is aborted by the listener, no underlying call is in flight,
\* and the call never issues an underlying call beyond the k+1 issued so far.
C3_NoAttemptAfterCallerAbort ==
    \A c \in Calls :
        LET st == calls[c]
        IN  st.abortedAt # -1 =>
                /\ st.ctrlAborted
                /\ st.ctrlReason = "User aborted"
                /\ st.controllers = st.abortedAt + 1
                /\ st.fetchCalls = st.abortedAt + 1
                /\ st.inFlight = 0
                /\ st.pc # "inflight"

\* Witness of C3: the signal fired during a retry with budget left, and the
\* call has ended.
C3_Witness ==
    \E c \in Calls :
        /\ calls[c].abortedAt > 0
        /\ calls[c].abortedAt < fetchRetrySettings.maxRetries
        /\ Done(calls[c])

\* C4: a call whose caller's signal fired during an attempt has raised an
\* AbortError directly from that attempt: no wait, no retry toast and no
\* terminal-failure notification follow the abort, and the raised value is an
\* error named AbortError.
C4_CallerAbortRaisedDirectly ==
    \A c \in Calls :
        LET st == calls[c]
        IN  st.abortedAt # -1 =>
                /\ st.pc = "raised"
                /\ st.exit = "abortCatch"
                /\ st.attempt = st.abortedAt
                /\ st.waits = st.abortedAt
                /\ st.errorNotifications = 0
                /\ st.result.settled = "error"
                /\ st.result.error.kind # "string"
                /\ st.result.error.name = "AbortError"

\* C5: a call made while the policy is disabled issues exactly one underlying
\* call, with the caller's own arguments and signal, creates no controller,
\* timer or listener, waits for nothing, notifies nothing, and ends with the
\* outcome of that underlying call.
C5_DisabledPassThrough ==
    \A c \in Calls :
        LET st == calls[c]
        IN  (~fetchRetrySettings.enabled /\ st.pc # "idle") =>
                /\ st.fetchCalls = 1
                /\ st.fetchSignal = IF st.hasSignal THEN "original" ELSE "none"
                /\ st.controllers = 0
                /\ st.timeoutId = 0
                /\ st.listeners = {}
                /\ st.waits = 0
                /\ st.retryToasts = 0
                /\ st.errorNotifications = 0
                /\ st.pc \in {"bypass", "returned", "raised"}
                /\ Done(st) => (st.exit = "bypass" /\ st.result = st.got)

\* Witness of C5: a disabled call with a signal has forwarded a 429 response.
C5_Witness ==
    \E c \in Calls :
        /\ ~fetchRetrySettings.enabled
        /\ calls[c].hasSignal
        /\ calls[c].pc = "returned"
        /\ calls[c].result.response.status = 429

\* C6: a call made, with the policy enabled, on a signal that is already
\* aborted issues exactly one underlying call with the caller's arguments and
\* ends with its outcome: no controller, timer, wait or notification.
C6_AlreadyAbortedPassThrough ==
    \A c \in Calls :
        LET st == calls[c]
        IN  (fetchRetrySettings.enabled /\ st.entryAborted /\ st.pc # "idle") =>
                /\ st.fetchCalls = 1
                /\ st.fetchSignal = "original"
                /\ st.controllers = 0
                /\ st.timeoutId = 0
                /\ st.listeners = {}
                /\ st.waits = 0
                /\ st.retryToasts = 0
                /\ st.errorNotifications = 0
                /\ st.pc \in {"bypass", "returned", "raised"}
                /\ Done(st) => (st.exit = "bypass" /\ st.result = st.got)

\* Witness of C6: the single underlying call of such a call has been
\* rejected by the native fetch and the rejection forwarded.
C6_Witness ==
    \E c \in Calls :
        /\ fetchRetrySettings.enabled
        /\ calls[c].entryAborted
        /\ calls[c].pc = "raised"
        /\ calls[c].result = Rejected(NativeAbortError)
        /\ calls[c].fetchCalls = 1

\* C7: every wait between two attempts lasts at least minRetryDelay.
C7_MinRetryDelayFloor ==
    \A c \in Calls :
        calls[c].pc = "waiting" =>
            calls[c].delay >= Ms(fetchRetrySettings.minRetryDelay)

\* Witness of C7: a wait after a response with a negative Retry-After, where
\* the floor exceeds the generic schedule and is the delay.
C7_Witness ==
    \E c \in Calls :
        /\ calls[c].pc = "waiting"
        /\ calls[c].got = Resolved(Response(500, <<"-", "5">>))
        /\ fetchRetrySettings.minRetryDelay > fetchRetrySettings.retryDelay * 2
        /\ calls[c].delay = Ms(fetchRetrySettings.minRetryDelay)

\* C8: for a fixed policy and response, the delay computed for an attempt
\* index is at most the delay computed for the next attempt index.
C8_DelayMonotoneInAttempt ==
    calc.applied =>
        calc.delay <= getRetryDelay(Undefined, calc.response, calc.attempt + 1)

\* Witness of C8: the rate-limit schedule decides the delay of a 429 at
\* attempt 1, and the delay at attempt 2 is larger.
C8_Witness ==
    /\ calc.applied
    /\ calc.response.status = 429
    /\ calc.attempt = 1
    /\ calc.delay = fetchRetrySettings.rateLimitDelay * Pow15(1)
    /\ calc.delay > fetchRetrySettings.retryDelay * Pow12(1)
    /\ calc.delay < getRetryDelay(Undefined, calc.response, 2)

\* C9: the wait after a 5xx response whose Retry-After parses to s >= 0
\* seconds is at least min(s * 1000, 30000) ms, and exceeds 30000 ms only if
\* minRetryDelay or retryDelay * 1.2^attempt does.
C9_RetryAfterOn5xx ==
    \A c \in Calls :
        LET st == calls[c]
            r == st.got.response
            s == ParseInt(r.retryAfter)
        IN  (/\ st.pc = "waiting"
             /\ st.got.settled = "response"
             /\ r.status >= 500
             /\ r.retryAfter # NoHeader
             /\ ~s.nan
             /\ s.value >= 0) =>
                /\ st.delay >= Ms(Min(s.value * 1000, 30000))
                /\ st.delay <= Max(Ms(30000),
                                   Max(Ms(fetchRetrySettings.minRetryDelay),
                                       fetchRetrySettings.retryDelay * Pow12(st.attempt)))

\* Witness of C9: Retry-After: 10 on a 500 gives a wait of 10000 ms where the
\* generic schedule and the floor are smaller.
C9_Witness ==
    \E c \in Calls :
        /\ calls[c].pc = "waiting"
        /\ calls[c].got = Resolved(Response(500, <<"1", "0">>))
        /\ calls[c].delay = Ms(10000)
        /\ fetchRetrySettings.retryDelay * Pow12(calls[c].attempt) < Ms(10000)
        /\ fetchRetrySettings.minRetryDelay < 10000

\* Every underlying call issued so far was answered by the scripted server.
Served(st) == st.fetchCalls = Len(ScenarioScript) - Len(script)

C11_ToastBeforeEachWait ==
    \A c \in Calls :
        InLoop(calls[c]) => calls[c].retryToasts = calls[c].waits

\* The call raised because of a caller abort: the signal fired during an
\* attempt, or the call raised an abort error.
RaisedOnCallerAbort(st) ==
    /\ st.pc = "raised"
    /\ \/ st.abortedAt # -1
       \/ st.exit \in {"abortLoop", "abortCatch"}

\* C12: a call that ended in terminal failure invoked the terminal-failure
\* notifier exactly once, with the recorded (lastError, lastResponse), and
\* raised that lastError; a call that returned a response or raised because
\* of a caller abort never invoked it.
C12_TerminalNotificationOnce ==
    \A c \in Calls :
        LET st == calls[c]
        IN  /\ st.exit = "terminal" =>
                    /\ st.errorNotifications = 1
                    /\ st.notified = [error |-> st.lastError,
                                      response |-> st.lastResponse]
                    /\ st.result = Rejected(st.lastError)
            /\ (st.pc = "returned" \/ RaisedOnCallerAbort(st)) =>
                    st.errorNotifications = 0

\* C13: an underlying call is issued only by a call that is idle or whose
\* wait has elapsed, with no underlying call of its own in flight; a call
\* never has two underlying calls in flight.
C13_AttemptsSequential ==
    [][\A c \in Calls :
        LET a == calls[c]
            b == calls'[c]
        IN  /\ a.inFlight <= 1
            /\ b.inFlight <= 1
            /\ b.fetchCalls # a.fetchCalls =>
                    /\ a.pc \in {"idle", "waiting"}
                    /\ a.inFlight = 0
                    /\ b.fetchCalls = a.fetchCalls + 1
                    /\ b.inFlight = 1
                    /\ a.pc = "waiting" => b.attempt = a.attempt + 1
            /\ a.pc = "waiting" => (a.waits = a.attempt + 1 /\ a.inFlight = 0)]_vars

\* Witness of C13: the third attempt of a call is in flight after two waits.
C13_Witness ==
    \E c \in Calls :
        /\ calls[c].pc = "inflight"
        /\ calls[c].attempt = 2
        /\ calls[c].waits = 2
        /\ calls[c].inFlight = 1

\* C14: the step that receives a 2xx response for a URL that is not a
\* generation endpoint returns that response on the same attempt, with no
\* underlying call, wait, retry notification or error notification, whatever
\* streamInactivityTimeout is.
C14_NonGenerationSuccessReturned ==
    [][\A c \in Calls :
        LET a == calls[c]
            b == calls'[c]
        IN  (/\ a.pc = "inflight"
             /\ b.got.settled = "response"
             /\ Ok(b.got.response)
             /\ ~isGenerationUrl(a.url)) =>
                /\ b.pc = "returned"
                /\ b.exit = "return"
                /\ b.result = b.got
                /\ b.attempt = a.attempt
                /\ b.fetchCalls = a.fetchCalls
                /\ b.waits = a.waits
                /\ b.retryToasts = a.retryToasts
                /\ b.errorNotifications = a.errorNotifications]_vars

\* Witness of C14: with a positive streamInactivityTimeout, a 200 received on
\* a retry for a non-generation URL has been returned.
C14_Witness ==
    \E c \in Calls :
        /\ calls[c].pc = "returned"
        /\ calls[c].url = OtherUrl
        /\ calls[c].attempt > 0
        /\ calls[c].got = Resolved(Response(200, NoHeader))
        /\ calls[c].result = calls[c].got
        /\ fetchRetrySettings.streamInactivityTimeout > 0

\* C15: the step that receives, for a generation URL with a positive
\* streamInactivityTimeout and attempt < maxRetries, a 2xx response whose body
\* sends no chunk within the timeout, discards the response and starts a wait.
C15_StalledStreamRetried ==
    [][\A c \in Calls :
        LET a == calls[c]
            b == calls'[c]
        IN  (/\ a.pc = "inflight"
             /\ b.got.settled = "response"
             /\ Ok(b.got.response)
             /\ b.got.response.stalled
             /\ isGenerationUrl(a.url)
             /\ fetchRetrySettings.streamInactivityTimeout > 0
             /\ a.attempt < fetchRetrySettings.maxRetries) =>
                /\ b.pc = "waiting"
                /\ b.waits = a.waits + 1
                /\ b.lastError = InvalidError]_vars

\* C16: the step in which the thinking timer fires aborts the attempt's own
\* controller and fails the attempt with the timeout error: below the retry
\* budget the call starts a wait, at the budget it ends in terminal failure
\* raising the timeout error, and it never leaves by an abort exit.
C16_TimeoutIsRetryableFailure ==
    [][\A c \in Calls :
        LET a == calls[c]
            b == calls'[c]
        IN  (/\ a.pc = "inflight"
             /\ a.timeoutId # 0
             /\ b.got = Rejected(TimeoutError)) =>
                /\ b.ctrlAborted
                /\ b.ctrlReason = "timeout"
                /\ b.inFlight = 0
                /\ b.lastError = TimeoutError
                /\ a.attempt < fetchRetrySettings.maxRetries =>
                        /\ b.pc = "waiting"
                        /\ b.waits = a.waits + 1
                        /\ b.attempt = a.attempt
                /\ a.attempt >= fetchRetrySettings.maxRetries =>
                        /\ b.exit = "terminal"
                        /\ b.result = Rejected(TimeoutError)
                /\ b.exit \notin {"abortLoop", "abortCatch"}
                /\ b.abortedAt = -1]_vars

\* Witness of C16: a call whose caller holds a live signal waits after the
\* thinking timer cancelled a retry.
C16_Witness ==
    \E c \in Calls :
        /\ calls[c].pc = "waiting"
        /\ calls[c].hasSignal
        /\ calls[c].attempt > 0
        /\ calls[c].got = Rejected(TimeoutError)
        /\ calls[c].ctrlReason = "timeout"

\* C17: a step of one call (an attempt settling, its thinking timer, its
\* caller's abort, its wait elapsing) changes the state of that call only:
\* the attempt index, last error, last response, controller and underlying
\* calls of every other call are left as they were, and so are the settings
\* and streamTimeoutId.
C17_CallsIndependent ==
    [][/\ \A c, d \in Calls :
            (c # d /\ calls'[c] # calls[c]) => calls'[d] = calls[d]
       /\ fetchRetrySettings' = fetchRetrySettings
       /\ streamTimeoutId' = streamTimeoutId]_vars

\* Witness of C17: one call has raised after its caller's abort or after a
\* thinking timeout, while another call is on its retry, with its controller
\* intact and the 500 of its own first attempt recorded.
C17_Witness ==
    \E c, d \in Calls :
        /\ c # d
        /\ calls[c].pc = "raised"
        /\ \/ calls[c].abortedAt # -1
           \/ calls[c].got = Rejected(TimeoutError)
        /\ calls[d].pc = "inflight"
        /\ calls[d].attempt = 1
        /\ calls[d].inFlight = 1
        /\ ~calls[d].aborted
        /\ ~calls[d].ctrlAborted
        /\ calls[d].lastResponse = Response(500, NoHeader)

\* The seconds a Retry-After value stands for, by the table of the values the
\* servers of the model send; {} where the value is absent or no number.
HeaderSeconds(h) ==
    CASE h = <<"1", "0">> -> {10}
      [] h = <<"4", "0">> -> {40}
      [] h = <<"-", "5">> -> {-5}
      [] h = <<"7", "s">> -> {7}
      [] h = <<"+", "3">> -> {3}
      [] OTHER -> {}

\* The terms of the delay: the floor, the generic schedule, R and L.
DelayTerms(policy, response, attempt) ==
    {Ms(policy.minRetryDelay), policy.retryDelay * Pow12(attempt)}
    \cup {Ms(Min(sec * 1000, 30000)) : sec \in HeaderSeconds(response.retryAfter)}
    \cup (IF response.status = 429
          THEN {policy.rateLimitDelay * Pow15(attempt)}
          ELSE {})

ExpectedDelay(policy, response, attempt) ==
    CHOOSE m \in DelayTerms(policy, response, attempt) :
        \A x \in DelayTerms(policy, response, attempt) : x <= m

\* C18: every retry decision and every computed wait of a call reads the
\* settings as they are at that step, whatever they were when the call or
\* the attempt started: an attempt that fails retryably is retried exactly
\* when its index is below the current maxRetries, the wait it starts is the
\* delay under the current retryDelay, rateLimitDelay and minRetryDelay, and
\* an elapsed wait starts the next attempt exactly when the next index is
\* within the current maxRetries.
C18_LatestPolicyUsed ==
    [][\A c \in Calls :
        LET a == calls[c]
            b == calls'[c]
            response == IF b.got.settled = "response"
                        THEN b.got.response
                        ELSE a.lastResponse
        IN  /\ (a.pc = "inflight" /\ b.pc # "inflight" /\ RetryableFailure(b.got)) =>
                    IF a.attempt < fetchRetrySettings.maxRetries
                    THEN /\ b.pc = "waiting"
                         /\ b.delay = ExpectedDelay(fetchRetrySettings, response,
                                                   a.attempt)
                    ELSE b.exit = "terminal"
            /\ (a.pc = "waiting" /\ b.pc # "waiting") =>
                    IF a.attempt + 1 <= fetchRetrySettings.maxRetries
                    THEN b.pc = "inflight" /\ b.fetchCalls = a.fetchCalls + 1
                    ELSE b.exit = "terminal" /\ b.fetchCalls = a.fetchCalls]_vars

\* Witness of C18: a call that started with maxRetries = 0 is making its
\* third attempt, and the wait before it was computed from a retryDelay
\* changed after the call started.
C18_Witness ==
    \E c \in Calls :
        /\ calls[c].entryMaxRetries = 0
        /\ calls[c].pc = "inflight"
        /\ calls[c].fetchCalls = 3
        /\ calls[c].got = Rejected(NetworkError)
        /\ calls[c].delay = 5000 * Pow12(1)
        /\ fetchRetrySettings.retryDelay = 5000

\* C19: every delay the calculator computes is the greatest of minRetryDelay,
\* retryDelay * 1.2^attempt, min(s * 1000, 30000) when the response carries a
\* Retry-After header that parses to the integer s, and
\* rateLimitDelay * 1.5^attempt when the response has status 429.
C19_DelayFormula ==
    calc.applied =>
        calc.delay = ExpectedDelay(fetchRetrySettings, calc.response, calc.attempt)

\* Witness of C19: a 429 with Retry-After: 40 on attempt 1, where the capped
\* header term exceeds the rate-limit term, the generic term and the floor.
C19_Witness ==
    /\ calc.applied
    /\ calc.response = Response(429, <<"4", "0">>)
    /\ calc.attempt = 1
    /\ calc.delay = Ms(30000)
    /\ fetchRetrySettings.rateLimitDelay * Pow15(1) < Ms(30000)
    /\ fetchRetrySettings.rateLimitDelay * Pow15(1) >
            fetchRetrySettings.retryDelay * Pow12(1)
    /\ fetchRetrySettings.minRetryDelay > 0

\* C20: the wait that follows an attempt that raised (thinking timeout or
\* network failure) is max(minRetryDelay, retryDelay * 1.2^attempt), whatever
\* responses earlier attempts of the call received.
C20_WaitAfterRaiseIsGeneric ==
    \A c \in Calls :
        LET st == calls[c]
        IN  (/\ st.pc = "waiting"
             /\ st.got.settled = "error"
             /\ st.got.error \in {TimeoutError, NetworkError}) =>
                st.delay = Max(Ms(fetchRetrySettings.minRetryDelay),
                               fetchRetrySettings.retryDelay * Pow12(st.attempt))

\* C21: no attempt of the loop is in flight or started while the caller's
\* signal is aborted, and the iteration that begins after a wait during which
\* the signal was aborted raises the abort error of the loop without calling
\* the underlying fetch and without any notification.
C21_NoAttemptWhileCallerAborted ==
    [][\A c \in Calls :
        LET a == calls[c]
            b == calls'[c]
        IN  /\ b.pc = "inflight" => ~SignalAborted(b)
            /\ (a.pc = "waiting" /\ SignalAborted(a) /\ b.pc # "waiting") =>
                    /\ b.pc = "raised"
                    /\ b.exit = "abortLoop"
                    /\ b.result = Rejected(LoopAbortError)
                    /\ b.fetchCalls = a.fetchCalls
                    /\ b.controllers = a.controllers
                    /\ b.retryToasts = a.retryToasts
                    /\ b.errorNotifications = a.errorNotifications]_vars

\* Witness of C21: the signal fired during a wait, after a retry whose
\* underlying call had settled, and the next iteration raised.
C21_Witness ==
    \E c \in Calls :
        /\ calls[c].exit = "abortLoop"
        /\ calls[c].abortedAt = -1
        /\ calls[c].attempt = 2
        /\ calls[c].fetchCalls = 2
        /\ calls[c].got.settled = "response"

\* C22: a call has at most one abort listener registered on the caller's
\* signal, the one of the attempt in flight, and none while it waits between
\* attempts or after it has returned or raised.
C22_ListenerRemoved ==
    \A c \in Calls :
        LET st == calls[c]
        IN  /\ Cardinality(st.listeners) <= 1
            /\ st.pc = "inflight" =>
                    st.listeners = IF st.hasSignal THEN {st.controllers} ELSE {}
            /\ st.pc # "inflight" => st.listeners = {}

\* Witness of C22: a call with a live, unfired signal waits after the second
\* attempt received a 500, with no listener registered.
C22_Witness ==
    \E c \in Calls :
        /\ calls[c].pc = "waiting"
        /\ calls[c].hasSignal
        /\ ~calls[c].aborted
        /\ calls[c].attempt = 1
        /\ calls[c].got = Resolved(Response(500, NoHeader))
        /\ calls[c].listeners = {}

\* C23: with enableThinkingTimeout false, or with thinkingTimeout = 0, no
\* thinking timer is pending for any attempt and no attempt has ended in a
\* timeout failure.
C23_TimerOnlyWhenPositive ==
    (~fetchRetrySettings.enableThinkingTimeout
        \/ fetchRetrySettings.thinkingTimeout = 0) =>
            \A c \in Calls :
                /\ calls[c].timeoutId = 0
                /\ calls[c].got # Rejected(TimeoutError)
                /\ calls[c].lastError # TimeoutError

\* C24: every attempt is issued with a controller created for it, not
\* aborted at that time; a thinking timer pending during an attempt is the
\* one of that attempt's controller, no timer is pending outside an attempt,
\* and a controller is aborted only during its own attempt.
C24_TimeoutScopedToAttempt ==
    [][\A c \in Calls :
        LET a == calls[c]
            b == calls'[c]
        IN  /\ (b.fetchCalls # a.fetchCalls /\ b.pc = "inflight") =>
                    /\ b.controllers = a.controllers + 1
                    /\ ~b.ctrlAborted
                    /\ b.timeoutId \in {0, b.controllers}
            /\ b.pc # "inflight" => b.timeoutId = 0
            /\ (b.ctrlAborted /\ ~a.ctrlAborted) =>
                    /\ a.pc = "inflight"
                    /\ b.pc # "inflight"
                    /\ b.controllers = a.controllers
            /\ (b.ctrlReason = "timeout" /\ a.ctrlReason # "timeout") =>
                    a.timeoutId = a.controllers]_vars

\* Witness of C24: after the timer ended attempt 0, attempt 1 is in flight
\* with its own controller, not aborted, and its own timer pending.
C24_Witness ==
    \E c \in Calls :
        /\ calls[c].pc = "inflight"
        /\ calls[c].attempt = 1
        /\ calls[c].got = Rejected(TimeoutError)
        /\ calls[c].controllers = 2
        /\ calls[c].timeoutId = 2
        /\ ~calls[c].ctrlAborted

\* C25: the step that receives a response whose status is outside 2xx, 4xx
\* and 5xx does not return it: the attempt fails with the HTTP-status error,
\* below the budget the call starts a wait on the same attempt index, and at
\* the budget it ends in terminal failure raising that error.
C25_UnexpectedStatusIsFailure ==
    [][\A c \in Calls :
        LET a == calls[c]
            b == calls'[c]
        IN  (/\ a.pc = "inflight"
             /\ b.got.settled = "response"
             /\ ~Ok(b.got.response)
             /\ b.got.response.status < 400) =>
                /\ b.pc # "returned"
                /\ b.lastError = HttpError
                /\ b.fetchCalls = a.fetchCalls
                /\ b.attempt = a.attempt
                /\ IF a.attempt < fetchRetrySettings.maxRetries
                   THEN /\ b.pc = "waiting"
                        /\ b.waits = a.waits + 1
                        /\ b.errorNotifications = a.errorNotifications
                   ELSE /\ b.pc = "raised"
                        /\ b.exit = "terminal"
                        /\ b.result = Rejected(HttpError)
                        /\ b.waits = a.waits
                        /\ b.errorNotifications = a.errorNotifications + 1]_vars

\* Witness of C25: every attempt of a call with retries was answered 302 and
\* the call raised the HTTP-status error after maxRetries + 1 attempts.
C25_Witness ==
    \E c \in Calls :
        /\ calls[c].exit = "terminal"
        /\ calls[c].result = Rejected(HttpError)
        /\ calls[c].got = Resolved(Response(302, NoHeader))
        /\ calls[c].attempt = fetchRetrySettings.maxRetries
        /\ calls[c].attempt > 0
        /\ calls[c].fetchCalls = calls[c].attempt + 1

\* C26: the step that receives a 2xx response never raises and never calls
\* the terminal-failure notifier; at attempt >= maxRetries it returns that
\* response, whether or not its stream is stalled.  A call that has raised
\* from its loop did not receive a 2xx response on its last attempt.
C26_SuccessNeverRaises ==
    [][\A c \in Calls :
        LET a == calls[c]
            b == calls'[c]
        IN  /\ (/\ a.pc = "inflight"
                /\ b.got.settled = "response"
                /\ Ok(b.got.response)) =>
                    /\ b.pc # "raised"
                    /\ b.errorNotifications = a.errorNotifications
                    /\ a.attempt >= fetchRetrySettings.maxRetries =>
                            /\ b.pc = "returned"
                            /\ b.result = b.got
            /\ (b.pc = "raised" /\ InLoop(b)) =>
                    ~(b.got.settled = "response" /\ Ok(b.got.response))]_vars

\* Witness of C26: on the last attempt of a call with retries, for a
\* generation URL with a positive streamInactivityTimeout, a 200 whose stream
\* is stalled has been returned.
C26_Witness ==
    \E c \in Calls :
        /\ calls[c].pc = "returned"
        /\ calls[c].url = GenerationUrl
        /\ calls[c].attempt = fetchRetrySettings.maxRetries
        /\ calls[c].attempt > 0
        /\ calls[c].result = Resolved(StalledResponse(200))
        /\ calls[c].errorNotifications = 0
        /\ fetchRetrySettings.streamInactivityTimeout > 0

\* C27: the notification of a terminal failure classifies the outcome of the
\* final attempt: rate limit for a 429, server error for a 5xx, timeout for a
\* thinking timeout and network error for a network failure, whatever the
\* earlier attempts of the call received.
C27_NotificationOfFinalAttempt ==
    \A c \in Calls :
        LET st == calls[c]
        IN  (st.exit = "terminal" /\ fetchRetrySettings.showErrorNotification) =>
                /\ st.got = Rejected(TimeoutError) => st.errorToast = "timeout"
                /\ st.got = Rejected(NetworkError) => st.errorToast = "network"
                /\ (st.got.settled = "response" /\ st.got.response.status = 429) =>
                        st.errorToast = "rate limit"
                /\ (st.got.settled = "response" /\ st.got.response.status >= 500) =>
                        st.errorToast = "server error"

\* The error the wrapper makes of the outcome of an attempt.
ErrorOf(o) ==
    IF o.settled = "error" THEN o.error
    ELSE IF o.response.status = 429 THEN RateLimitError
    ELSE IF o.response.status >= 500 THEN ServerError
    ELSE HttpError

\* C28: a call that raised after its retry loop raised the error of the last
\* attempt it executed, never an unset value and never the error of an
\* earlier attempt, also when maxRetries was lowered during a wait.
C28_RaisesLastAttemptError ==
    \A c \in Calls :
        LET st == calls[c]
        IN  st.exit = "terminal" =>
                /\ st.result.settled = "error"
                /\ st.result.error # Undefined
                /\ st.result.error = ErrorOf(st.got)

\* C29: under a fixed policy, every call that was made eventually returns or
\* raises, and at every moment it has issued at most maxRetries + 1
\* underlying calls and started at most maxRetries waits.
C29_CallTerminates ==
    /\ \A c \in MainCalls : (calls[c].pc # "idle") ~> Done(calls[c])
    /\ [](\A c \in MainCalls :
            /\ calls[c].fetchCalls <= fetchRetrySettings.maxRetries + 1
            /\ calls[c].waits <= fetchRetrySettings.maxRetries)

\* Witness of C29: a call has ended after maxRetries + 1 attempts and
\* maxRetries waits, its last attempt ended by the thinking timer.
C29_Witness ==
    \E c \in MainCalls :
        /\ Done(calls[c])
        /\ fetchRetrySettings.maxRetries = MaxRetriesBound
        /\ calls[c].fetchCalls = fetchRetrySettings.maxRetries + 1
        /\ calls[c].waits = fetchRetrySettings.maxRetries
        /\ calls[c].got = Rejected(TimeoutError)

\* C30: once the underlying call of an attempt has settled with a response,
\* no later step aborts that attempt's controller: it is not aborted when the
\* response arrives, no timer is left pending for it, and a later firing of
\* the caller's signal leaves it as it is.
C30_SettledControllerNotCancelled ==
    [][\A c \in Calls :
        LET a == calls[c]
            b == calls'[c]
        IN  /\ (a.pc = "inflight" /\ b.got.settled = "response") =>
                    /\ ~b.ctrlAborted
                    /\ b.timeoutId = 0
            /\ (/\ a.pc # "inflight"
                /\ a.got.settled = "response"
                /\ b.controllers = a.controllers) =>
                    /\ b.ctrlAborted = a.ctrlAborted
                    /\ b.ctrlReason = a.ctrlReason]_vars

\* Witness of C30: with the thinking timeout enabled, the caller's signal
\* fired after a retry had returned its response, and the controller of that
\* attempt is not aborted.
C30_Witness ==
    \E c \in Calls :
        /\ calls[c].exit = "return"
        /\ calls[c].attempt > 0
        /\ calls[c].aborted
        /\ calls[c].abortedAt = -1
        /\ ~calls[c].ctrlAborted
        /\ calls[c].got = Resolved(Response(200, NoHeader))
        /\ fetchRetrySettings.enableThinkingTimeout

====
